---- MODULE Spec2Model ----
(***************************************************************************)
(* Workflow catalog (api.py) and batch exporter (cf.py).                   *)
(*                                                                         *)
(* The program keeps no state of its own: every handler is one pass over   *)
(* the files of a directory.  The state of the model is the file system,   *)
(* the last request and the last response.  Each handler is one action.    *)
(***************************************************************************)
EXTENDS Integers, Sequences, FiniteSets, TLC

VARIABLES
    fs,      \* directory -> (file name -> entry); an entry is a text or DirEntry
    op,      \* the handler that ran last ("init" before any)
    req,     \* the inputs of that handler
    resp,    \* what it returned
    reads,   \* the places whose text it read (path.read_text / path.open)
    calls    \* number of convert_all calls so far

vars == <<fs, op, req, resp, reads, calls>>

(***************************************************************************)
(* Bounds                                                                  *)
(***************************************************************************)
\* number of distinct node-id keys a document may carry
MaxNodes == 1
\* number of convert_all calls in one behaviour
MaxCalls == 1
\* number of path segments of a requested name
MaxSegs == 2

(***************************************************************************)
(* JSON values.  A parsed document is two levels deep: a top-level value,  *)
(* and, when that is a mapping, its entries.  An entry records its kind,   *)
(* the keys it has when it is a mapping, and its Python truth value.       *)
(* json.load only ever produces string keys.                               *)
(***************************************************************************)
NodeIds == {ToString(i) : i \in 1..MaxNodes}

InnerKeys == {"class_type", "inputs", "title", "id"}

Obj(keys) == [kind |-> "dict", keys |-> keys, truthy |-> keys # {}]

Scalar(kind, truthy) == [kind |-> kind, keys |-> {}, truthy |-> truthy]

JsonNull == Scalar("null", FALSE)

InnerVals ==
    {Obj(K) : K \in SUBSET InnerKeys}
        \cup {Scalar(k, t) : k \in {"list", "str"}, t \in BOOLEAN}
        \cup {JsonNull}

TopKeys == {"nodes", "cvb_meta"} \cup NodeIds

NoEntries == [k \in {} |-> JsonNull]

DictDoc(ent) == [kind |-> "dict", ent |-> ent]

DictDocs == {DictDoc(f) : f \in UNION {[K -> InnerVals] : K \in SUBSET TopKeys}}

NonDictDocs == {[kind |-> k, ent |-> NoEntries] : k \in {"list", "str", "null"}}

JsonDocs == DictDocs \cup NonDictDocs

\* isinstance(k, str): every key json.load produces is a string
IsStrKey(k) == k \in STRING

(***************************************************************************)
(* The classifier, once per source file.                                   *)
(***************************************************************************)
\* the classifier without the precedence of the "nodes" list
api_is_api_graph_NoNodesCheck(data) ==
    IF data.kind # "dict" THEN FALSE
    ELSE \E k \in DOMAIN data.ent :
            /\ IsStrKey(k)
            /\ data.ent[k].kind = "dict"
            /\ "class_type" \in data.ent[k].keys
            /\ "inputs" \in data.ent[k].keys

api_is_api_graph(data) ==
    IF data.kind # "dict" THEN FALSE
    ELSE IF "nodes" \in DOMAIN data.ent /\ data.ent["nodes"].kind = "list" THEN FALSE
    ELSE \E k \in DOMAIN data.ent :
            /\ IsStrKey(k)
            /\ data.ent[k].kind = "dict"
            /\ "class_type" \in data.ent[k].keys
            /\ "inputs" \in data.ent[k].keys

cf_is_api_graph(data) ==
    IF data.kind # "dict" THEN FALSE
    ELSE IF "nodes" \in DOMAIN data.ent /\ data.ent["nodes"].kind = "list" THEN FALSE
    ELSE \E k \in DOMAIN data.ent :
            /\ IsStrKey(k)
            /\ data.ent[k].kind = "dict"
            /\ "class_type" \in data.ent[k].keys
            /\ "inputs" \in data.ent[k].keys

(***************************************************************************)
(* File names.  A name is the sequence of its dot-separated components:    *)
(* "foo.api.json" is <<"foo", "api", "json">>.  ".." is the one-component  *)
(* name ParentSeg and the empty string is <<>>.                            *)
(***************************************************************************)
FooJson == <<"foo", "json">>

FooApiJson == <<"foo", "api", "json">>

FooApiTxt == <<"foo", "api", "txt">>

BarJson == <<"bar", "json">>

FooNoSuffix == <<"foo">>

ParentSeg == <<"..">>

\* Path.suffix, without its dot
Suffix(name) == IF Len(name) >= 2 THEN name[Len(name)] ELSE ""

\* Path.stem
Stem(name) == IF Len(name) >= 2 THEN SubSeq(name, 1, Len(name) - 1) ELSE name

\* s.endswith(".api")
EndsWithDotApi(s) == Len(s) >= 2 /\ s[Len(s)] = "api"

\* s.endswith(".json"), also fnmatch of the pattern "*.json"
EndsWithDotJson(s) == Len(s) >= 2 /\ s[Len(s)] = "json"

\* the order of the components as Python compares the strings
CompRank(c) ==
    CASE c = ".." -> 0
      [] c = "api" -> 1
      [] c = "bar" -> 2
      [] c = "foo" -> 3
      [] c = "json" -> 4
      [] c = "txt" -> 5

\* a < b for two file names of one directory, as sorted() compares the paths
RECURSIVE NameLess(_, _)
NameLess(a, b) ==
    IF a = <<>> THEN b # <<>>
    ELSE IF b = <<>> THEN FALSE
    ELSE IF Head(a) = Head(b) THEN NameLess(Tail(a), Tail(b))
    ELSE CompRank(Head(a)) < CompRank(Head(b))

RECURSIVE SortNames(_)
SortNames(S) ==
    IF S = {} THEN <<>>
    ELSE LET m == CHOOSE x \in S : \A y \in S \ {x} : NameLess(x, y)
         IN  <<m>> \o SortNames(S \ {m})

(***************************************************************************)
(* Texts.  A text is the document it encodes together with its layout;     *)
(* a text that json cannot parse has the layout "invalid".  An entry of a  *)
(* directory is a text, or DirEntry when the name is a sub-directory.      *)
(***************************************************************************)
NullDoc == [kind |-> "null", ent |-> NoEntries]

Text(doc, layout) == [layout |-> layout, doc |-> doc]

InvalidText == Text(NullDoc, "invalid")

DirEntry == Text(NullDoc, "directory")

NoText == Text(NullDoc, "none")

\* json.loads / json.load: the document, or an exception
json_loads(text) ==
    IF text.layout = "invalid" THEN [ok |-> FALSE, data |-> NullDoc]
    ELSE [ok |-> TRUE, data |-> text.doc]

\* json.dumps(data, ensure_ascii=False, indent=2)
json_dumps(data) == Text(data, "indent2")

\* Path.is_file() of an existing entry
IsRegular(entry) == entry.layout # "directory"

(***************************************************************************)
(* The documents the files of the model hold.                              *)
(***************************************************************************)
NodeEntry == Obj({"class_type", "inputs"})

FileNodeId == "1"

FileDocs ==
    {DictDoc(f) : f \in UNION {
        [K -> {NodeEntry, Scalar("list", TRUE), Scalar("str", TRUE), Obj({"title"})}]
            : K \in SUBSET {"nodes", "cvb_meta", FileNodeId}}}

\* the documents of the catalog's files: "nodes" a list or absent, one node
\* entry or none, cvb_meta absent, a mapping with a title, or a string
CatalogDocs ==
    {d \in FileDocs :
        /\ "nodes" \in DOMAIN d.ent => d.ent["nodes"] = Scalar("list", TRUE)
        /\ FileNodeId \in DOMAIN d.ent => d.ent[FileNodeId] = NodeEntry
        /\ "cvb_meta" \in DOMAIN d.ent =>
                d.ent["cvb_meta"] \in {Obj({"title"}), Scalar("str", TRUE)}}
        \cup {[kind |-> "list", ent |-> NoEntries]}

CatalogEntries ==
    {Text(d, "compact") : d \in CatalogDocs} \cup {InvalidText, DirEntry}

\* every directory content over the names N with entries from E
DirContents(N, E) == UNION {[K -> E] : K \in SUBSET N}

(***************************************************************************)
(* api.py                                                                  *)
(***************************************************************************)
WORKFLOWS_DIR == "workflows"

\* the parent directory of WORKFLOWS_DIR
USER_DIR == "user"

\* _load_json(path)
load_json(files, name) == json_loads(files[name])

\* _meta_from(path, data): raises when cvb_meta is a true value that is no
\* mapping (meta.get fails); description, tags and version are copied from
\* the meta block and influence nothing else
meta_from(name, data) ==
    LET raw == IF data.kind = "dict" /\ "cvb_meta" \in DOMAIN data.ent
                    /\ data.ent["cvb_meta"].truthy
               THEN data.ent["cvb_meta"]
               ELSE Obj({})
    IN  IF raw.kind # "dict" THEN [ok |-> FALSE, id |-> <<>>, title |-> <<>>]
        ELSE [ok |-> TRUE,
              id |-> IF "id" \in raw.keys THEN <<"meta">> ELSE <<"stem", Stem(name)>>,
              title |-> IF "title" \in raw.keys THEN <<"meta">>
                        ELSE <<"titlecase", Stem(name)>>]

\* _list_files(): the regular files matching *.json, sorted
list_files(files) ==
    SortNames({n \in DOMAIN files : EndsWithDotJson(n) /\ IsRegular(files[n])})

Url(name, format) == [name |-> name, format |-> format]

\* the entry of the except branch of list_workflows
DegradedEntry(name) ==
    [id |-> <<"stem", Stem(name)>>, title |-> <<"stem", Stem(name)>>,
     filename |-> name, is_api |-> FALSE,
     raw_url |-> Url(name, "raw"), template_url |-> Url(name, "api"),
     error |-> TRUE]

\* one iteration of the loop of list_workflows
list_entry(files, names, name) ==
    LET loaded == load_json(files, name)
        meta == meta_from(name, loaded.data)
        own == api_is_api_graph(loaded.data) \/ EndsWithDotApi(Stem(name))
        api_name == Stem(name) \o <<"api", "json">>
        hasCompanion == ~own /\ api_name \in names
        \* is_api = _is_api_graph(_load_json(companion)) or True, unless the
        \* load raises: then the assignment never happens
        is_api == IF hasCompanion
                  THEN (IF load_json(files, api_name).ok THEN TRUE ELSE own)
                  ELSE own
    IN  IF ~loaded.ok \/ ~meta.ok THEN DegradedEntry(name)
        ELSE [id |-> meta.id, title |-> meta.title,
              filename |-> name, is_api |-> is_api,
              raw_url |-> Url(name, "raw"),
              template_url |-> Url(IF hasCompanion THEN api_name ELSE name, "api"),
              error |-> FALSE]

\* the files list_workflows opens for one name
list_reads(files, names, name) ==
    LET loaded == load_json(files, name)
        meta == meta_from(name, loaded.data)
        own == api_is_api_graph(loaded.data) \/ EndsWithDotApi(Stem(name))
        api_name == Stem(name) \o <<"api", "json">>
    IN  {[dir |-> WORKFLOWS_DIR, name |-> name]} \cup
        (IF loaded.ok /\ meta.ok /\ ~own /\ api_name \in names
         THEN {[dir |-> WORKFLOWS_DIR, name |-> api_name]} ELSE {})

\* list_workflows whose loop stops at the first file that fails
list_workflows_AbortOnError(files) ==
    LET order == list_files(files)
        names == {order[i] : i \in 1..Len(order)}
        all == [i \in 1..Len(order) |-> list_entry(files, names, order[i])]
        bad == {i \in 1..Len(order) : all[i].error}
        stop == IF bad = {} THEN Len(order)
                ELSE (CHOOSE i \in bad : \A j \in bad : i <= j) - 1
    IN  SubSeq(all, 1, stop)

\* list_workflows: the items of the response
list_workflows(files) ==
    LET order == list_files(files)
        names == {order[i] : i \in 1..Len(order)}
    IN  [i \in 1..Len(order) |-> list_entry(files, names, order[i])]

(***************************************************************************)
(* Paths.  A requested name is a sequence of segments, each a file name or *)
(* ParentSeg.  A place is a directory and a name in it (<<>>: the          *)
(* directory itself).                                                      *)
(***************************************************************************)
Place(dir, name) == [dir |-> dir, name |-> name]

ParentOf(dir) ==
    CASE dir = WORKFLOWS_DIR -> USER_DIR
      [] dir = USER_DIR -> "above"
      [] OTHER -> "nowhere"

\* place / segs, as the operating system resolves it
RECURSIVE JoinPath(_, _)
JoinPath(place, segs) ==
    IF segs = <<>> THEN place
    ELSE LET s == Head(segs)
         IN  IF s = <<>> THEN JoinPath(place, Tail(segs))
             ELSE IF place.name # <<>>
                  THEN JoinPath(Place("nowhere", <<>>), Tail(segs))
             ELSE IF s = ParentSeg
                  THEN JoinPath(Place(ParentOf(place.dir), <<>>), Tail(segs))
             ELSE JoinPath(Place(place.dir, s), Tail(segs))

\* Path(...).name: the last segment
PathName(segs) == IF segs = <<>> THEN <<>> ELSE segs[Len(segs)]

PathExists(fsys, place) ==
    /\ place.dir \in DOMAIN fsys
    /\ place.name # <<>> => place.name \in DOMAIN fsys[place.dir]

PathIsFile(fsys, place) ==
    /\ place.dir \in DOMAIN fsys
    /\ place.name # <<>>
    /\ place.name \in DOMAIN fsys[place.dir]
    /\ IsRegular(fsys[place.dir][place.name])

\* the requested name joined to the directory as it came
workflow_path_Unsanitized(segs) == JoinPath(Place(WORKFLOWS_DIR, <<>>), segs)

\* name = Path(match_info["name"]).name; path = WORKFLOWS_DIR / name
workflow_path(segs) == JoinPath(Place(WORKFLOWS_DIR, <<>>), <<PathName(segs)>>)

\* the query carries no format
NoFormat == "<none>"

\* str.lower() on the formats of the model
Lower(s) ==
    CASE s = "RAW" -> "raw"
      [] s = "API" -> "api"
      [] OTHER -> s

Response(status, body, rd) == [status |-> status, body |-> body, reads |-> rd]

\* get_workflow without the branch that rejects an unknown format
get_workflow_UnknownAsRaw(fsys, segs, query) ==
    LET path == workflow_path(segs)
        fmt == Lower(IF query = NoFormat THEN "raw" ELSE query)
    IN  IF ~(PathExists(fsys, path) /\ PathIsFile(fsys, path)
                /\ Suffix(path.name) = "json")
        THEN Response(404, NoText, {})
        ELSE LET text == fsys[path.dir][path.name]
                 parsed == json_loads(text)
             IN  IF ~parsed.ok THEN Response(500, NoText, {path})
                 ELSE IF fmt = "api"
                      THEN (IF api_is_api_graph(parsed.data)
                            THEN Response(200, text, {path})
                            ELSE Response(422, NoText, {path}))
                 ELSE Response(200, text, {path})

\* get_workflow that serves the api format without classifying the document
get_workflow_NoClassifier(fsys, segs, query) ==
    LET path == workflow_path(segs)
        fmt == Lower(IF query = NoFormat THEN "raw" ELSE query)
    IN  IF ~(PathExists(fsys, path) /\ PathIsFile(fsys, path)
                /\ Suffix(path.name) = "json")
        THEN Response(404, NoText, {})
        ELSE LET text == fsys[path.dir][path.name]
                 parsed == json_loads(text)
             IN  IF ~parsed.ok THEN Response(500, NoText, {path})
                 ELSE IF fmt \in {"raw", "api"} THEN Response(200, text, {path})
                 ELSE Response(400, NoText, {path})

get_workflow(fsys, segs, query) ==
    LET path == workflow_path(segs)
        fmt == Lower(IF query = NoFormat THEN "raw" ELSE query)
    IN  IF ~(PathExists(fsys, path) /\ PathIsFile(fsys, path)
                /\ Suffix(path.name) = "json")
        THEN Response(404, NoText, {})
        ELSE LET text == fsys[path.dir][path.name]
                 parsed == json_loads(text)
             IN  IF ~parsed.ok THEN Response(500, NoText, {path})
                 ELSE IF fmt = "raw" THEN Response(200, text, {path})
                 ELSE IF fmt = "api"
                      THEN (IF api_is_api_graph(parsed.data)
                            THEN Response(200, text, {path})
                            ELSE Response(422, NoText, {path}))
                 ELSE Response(400, NoText, {path})

\* get_template_alias: the last segment, ".json" appended when missing,
\* handed to get_workflow with format=api
get_template_alias(fsys, segs) ==
    LET name == PathName(segs)
        full == IF EndsWithDotJson(name) THEN name ELSE name \o <<"json">>
    IN  get_workflow(fsys, <<full>>, "api")

(***************************************************************************)
(* Requests                                                                *)
(***************************************************************************)
SeqsUpTo(S, n) == UNION {[1..k -> S] : k \in 0..n}

Segments == {ParentSeg, FooJson, FooNoSuffix}

RequestNames == SeqsUpTo(Segments, MaxSegs)

Queries == {NoFormat, "raw", "api", "RAW", "xml"}

\* a file of the directory above WORKFLOWS_DIR, with a text no file inside has
OutsideText == Text(DictDoc([k \in {FileNodeId} |-> NodeEntry]), "indent2")

ApiText == Text(DictDoc([k \in {FileNodeId} |-> NodeEntry]), "compact")

EmptyDir == [n \in {} |-> NoText]

(***************************************************************************)
(* The catalog's handlers as actions.  A handler's response is a function  *)
(* of the directory and the request and no handler of api.py writes, so    *)
(* one request per behaviour reaches every response the server can give.   *)
(***************************************************************************)
ListWorkflows ==
    /\ op = "init"
    /\ op' = "list"
    /\ req' = <<>>
    /\ resp' = list_workflows(fs[WORKFLOWS_DIR])
    /\ reads' = LET order == list_files(fs[WORKFLOWS_DIR])
                    names == {order[i] : i \in 1..Len(order)}
                IN  UNION {list_reads(fs[WORKFLOWS_DIR], names, n) : n \in names}
    /\ UNCHANGED <<fs, calls>>

GetWorkflow ==
    /\ op = "init"
    /\ \E segs \in RequestNames, q \in Queries :
        LET r == get_workflow(fs, segs, q)
        IN  /\ op' = "get"
            /\ req' = [name |-> segs, format |-> q]
            /\ resp' = [status |-> r.status, body |-> r.body]
            /\ reads' = r.reads
    /\ UNCHANGED <<fs, calls>>

GetTemplateAlias ==
    /\ op = "init"
    /\ \E segs \in RequestNames :
        LET r == get_template_alias(fs, segs)
        IN  /\ op' = "alias"
            /\ req' = [name |-> segs, format |-> "api"]
            /\ resp' = [status |-> r.status, body |-> r.body]
            /\ reads' = r.reads
    /\ UNCHANGED <<fs, calls>>

Dirs(w, u, a) ==
    (WORKFLOWS_DIR :> w) @@ (USER_DIR :> u) @@ ("workflows_api" :> a)

InitListing ==
    /\ \E w \in DirContents({BarJson, FooApiJson, FooJson}, CatalogEntries) :
            fs = Dirs(w @@ (FooApiTxt :> ApiText), EmptyDir, EmptyDir)
    /\ op = "init"
    /\ req = <<>>
    /\ resp = <<>>
    /\ reads = {}
    /\ calls = 0

NextListing == ListWorkflows

SpecListing == InitListing /\ [][NextListing]_vars

InitRetrieval ==
    /\ \E w \in DirContents({FooApiJson, FooJson}, CatalogEntries),
          x \in DirContents({FooNoSuffix}, {ApiText}) :
            fs = Dirs(w @@ x, FooJson :> OutsideText, EmptyDir)
    /\ op = "init"
    /\ req = <<>>
    /\ resp = <<>>
    /\ reads = {}
    /\ calls = 0

NextRetrieval == GetWorkflow \/ GetTemplateAlias

SpecRetrieval == InitRetrieval /\ [][NextRetrieval]_vars

(***************************************************************************)
(* cf.py                                                                   *)
(***************************************************************************)
SRC_DIR == "workflows"

DST_DIR == "workflows_api"

\* _target_name that always appends ".api.json" to the stem
target_name_AlwaysAppend(name) == Stem(name) \o <<"api", "json">>

\* _target_name(src_name)
target_name(name) ==
    IF Suffix(name) = "json" /\ EndsWithDotApi(Stem(name)) THEN name
    ELSE Stem(name) \o <<"api", "json">>

\* Path.glob(pattern) on one name, for the patterns of the model
GlobMatch(pattern, name) ==
    CASE pattern = "*.json" -> EndsWithDotJson(name)
      [] pattern = "*" -> TRUE

\* the file system with text written to dir/name
WriteText(fsys, dir, name, text) ==
    [fsys EXCEPT ![dir] = (name :> text) @@ fsys[dir]]

\* the file system with dir/name removed
RemoveFile(fsys, dir, name) ==
    [fsys EXCEPT ![dir] = [n \in DOMAIN fsys[dir] \ {name} |-> fsys[dir][n]]]

\* the loop body that moves an API graph instead of copying it
convert_file_Move(st, source, dest, overwrite, name) ==
    LET entry == st.fsys[source][name]
        parsed == json_loads(entry)
        out_name == target_name(name)
        exists == out_name \in DOMAIN st.fsys[dest]
    IN  IF st.raised \/ ~IsRegular(entry) THEN st
        ELSE IF ~parsed.ok THEN [st EXCEPT !.skipped = Append(@, name)]
        ELSE IF cf_is_api_graph(parsed.data)
             THEN (IF exists /\ ~overwrite THEN st
                   ELSE IF exists /\ ~IsRegular(st.fsys[dest][out_name])
                        THEN [st EXCEPT !.raised = TRUE]
                   ELSE [st EXCEPT
                           !.fsys = WriteText(RemoveFile(st.fsys, source, name),
                                              dest, out_name, json_dumps(parsed.data)),
                           !.converted = Append(@, out_name)])
        ELSE [st EXCEPT !.skipped = Append(@, name)]

\* the loop body without the test of overwrite
convert_file_AlwaysOverwrite(st, source, dest, overwrite, name) ==
    LET entry == st.fsys[source][name]
        parsed == json_loads(entry)
        out_name == target_name(name)
        exists == out_name \in DOMAIN st.fsys[dest]
    IN  IF st.raised \/ ~IsRegular(entry) THEN st
        ELSE IF ~parsed.ok THEN [st EXCEPT !.skipped = Append(@, name)]
        ELSE IF cf_is_api_graph(parsed.data)
             THEN (IF exists /\ ~IsRegular(st.fsys[dest][out_name])
                   THEN [st EXCEPT !.raised = TRUE]
                   ELSE [st EXCEPT
                           !.fsys = WriteText(st.fsys, dest, out_name,
                                              json_dumps(parsed.data)),
                           !.converted = Append(@, out_name)])
        ELSE [st EXCEPT !.skipped = Append(@, name)]

\* one iteration of the loop of convert_all, on the file system as the
\* earlier iterations left it.  write_text on a name that is a directory
\* raises, and the exception leaves convert_all.
convert_file(st, source, dest, overwrite, name) ==
    LET entry == st.fsys[source][name]
        parsed == json_loads(entry)
        out_name == target_name(name)
        exists == out_name \in DOMAIN st.fsys[dest]
    IN  IF st.raised \/ ~IsRegular(entry) THEN st
        ELSE IF ~parsed.ok THEN [st EXCEPT !.skipped = Append(@, name)]
        ELSE IF cf_is_api_graph(parsed.data)
             THEN (IF exists /\ ~overwrite THEN st
                   ELSE IF exists /\ ~IsRegular(st.fsys[dest][out_name])
                        THEN [st EXCEPT !.raised = TRUE]
                   ELSE [st EXCEPT
                           !.fsys = WriteText(st.fsys, dest, out_name,
                                              json_dumps(parsed.data)),
                           !.converted = Append(@, out_name)])
        ELSE [st EXCEPT !.skipped = Append(@, name)]

RECURSIVE convert_loop(_, _, _, _, _)
convert_loop(st, source, dest, overwrite, paths) ==
    IF paths = <<>> THEN st
    ELSE convert_loop(convert_file(st, source, dest, overwrite, Head(paths)),
                      source, dest, overwrite, Tail(paths))

\* convert_all: the paths are globbed and sorted before the loop starts
convert_all(fsys, source, dest, overwrite, pattern) ==
    LET paths == SortNames({n \in DOMAIN fsys[source] : GlobMatch(pattern, n)})
        start == [fsys |-> fsys, converted |-> <<>>, skipped |-> <<>>,
                  raised |-> FALSE]
    IN  convert_loop(start, source, dest, overwrite, paths)

ConvertDirs == {SRC_DIR, DST_DIR}

Patterns == {"*.json", "*"}

UiText == Text(DictDoc([k \in {"nodes"} |-> Scalar("list", TRUE)]), "compact")

\* an API graph that carries a meta block
MetaApiDoc ==
    DictDoc((FileNodeId :> NodeEntry) @@ ("cvb_meta" :> Obj({"title"})))

SourceEntries ==
    {ApiText, OutsideText, Text(MetaApiDoc, "compact"), UiText, InvalidText, DirEntry}

ExportedEntries == {Text(MetaApiDoc, "compact"), DirEntry}

InitConvert ==
    /\ \E w \in DirContents({FooApiJson, FooApiTxt, FooJson}, SourceEntries),
          a \in DirContents({FooApiJson}, ExportedEntries) :
            fs = Dirs(w, EmptyDir, a)
    /\ op = "init"
    /\ req = <<>>
    /\ resp = <<>>
    /\ reads = {}
    /\ calls = 0

ConvertAll ==
    /\ calls < MaxCalls
    /\ \E source \in ConvertDirs, dest \in ConvertDirs,
          overwrite \in BOOLEAN, pattern \in Patterns :
        LET r == convert_all(fs, source, dest, overwrite, pattern)
        IN  /\ op' = "convert"
            /\ req' = [source_dir |-> source, dest_dir |-> dest,
                       overwrite |-> overwrite, glob |-> pattern, before |-> fs]
            /\ resp' = [converted |-> r.converted, skipped |-> r.skipped,
                        raised |-> r.raised]
            /\ fs' = r.fsys
    /\ calls' = calls + 1
    /\ reads' = {}

NextConvert == ConvertAll

SpecConvert == InitConvert /\ [][NextConvert]_vars

NoDirs == [d \in {} |-> NoEntries]

InitClassifier ==
    /\ fs = NoDirs
    /\ op = "init"
    /\ req \in [data : JsonDocs]
    /\ resp = <<>>
    /\ reads = {}
    /\ calls = 0

Classify ==
    /\ op = "init"
    /\ op' = "classify"
    /\ resp' = [api |-> api_is_api_graph(req.data), cf |-> cf_is_api_graph(req.data)]
    /\ UNCHANGED <<fs, req, reads, calls>>

NextClassifier == Classify

SpecClassifier == InitClassifier /\ [][NextClassifier]_vars

(***************************************************************************)
(* C1                                                                      *)
(***************************************************************************)
HasNodesList(d) == "nodes" \in DOMAIN d.ent /\ d.ent["nodes"].kind = "list"

HasNodeShapedValue(d) ==
    \E k \in DOMAIN d.ent :
        d.ent[k].kind = "dict" /\ {"class_type", "inputs"} \subseteq d.ent[k].keys

\* C1: both classifiers return true exactly for a mapping that has no "nodes"
\* list and has at least one value that is a mapping with both "class_type"
\* and "inputs"; a mapping with a "nodes" list and every non-mapping is false.
C1_ClassifierIff ==
    op = "classify" =>
        LET d == req.data
            expected == d.kind = "dict" /\ ~HasNodesList(d) /\ HasNodeShapedValue(d)
        IN  /\ resp.api = expected
            /\ resp.cf = expected
            /\ (d.kind = "dict" /\ HasNodesList(d) => ~resp.api /\ ~resp.cf)
            /\ (d.kind # "dict" => ~resp.api /\ ~resp.cf)

\* a mapping with a "nodes" list and a node-shaped entry has been classified
C1_Witness ==
    /\ op = "classify"
    /\ req.data.kind = "dict"
    /\ HasNodesList(req.data)
    /\ HasNodeShapedValue(req.data)
    /\ resp.api = FALSE
(***************************************************************************)
(* Claims about the listing                                                *)
(***************************************************************************)
RegularJsonNames(files) ==
    {n \in DOMAIN files : Suffix(n) = "json" /\ IsRegular(files[n])}

\* the text cannot be parsed, or the processing of its document raises
Unprocessable(text) ==
    \/ text.layout = "invalid"
    \/ /\ text.doc.kind = "dict"
       /\ "cvb_meta" \in DOMAIN text.doc.ent
       /\ text.doc.ent["cvb_meta"].truthy
       /\ text.doc.ent["cvb_meta"].kind # "dict"

Items == {resp[i] : i \in 1..Len(resp)}

CompanionOf(n) == Stem(n) \o <<"api", "json">>

\* the file is processed without error, is no API graph itself and its stem
\* does not end in ".api"
PlainUiFile(files, n) ==
    /\ ~Unprocessable(files[n])
    /\ ~(files[n].doc.kind = "dict" /\ ~HasNodesList(files[n].doc)
            /\ HasNodeShapedValue(files[n].doc))
    /\ ~EndsWithDotApi(Stem(n))

\* C2: in the listing, a file X.json that is not is_api by itself and has a
\* file X.api.json next to it gets is_api = true and a template_url for
\* X.api.json, whatever X.api.json holds.
C2_CompanionMakesApi ==
    op = "list" =>
        \A e \in Items :
            LET files == fs[WORKFLOWS_DIR]
            IN  (PlainUiFile(files, e.filename)
                    /\ CompanionOf(e.filename) \in RegularJsonNames(files))
                => /\ e.is_api
                   /\ e.template_url = Url(CompanionOf(e.filename), "api")

\* C7: the listing has exactly one entry per regular *.json file of the
\* directory, in the order of the file names; a file that cannot be
\* processed gets the degraded entry (error, not is_api, id and title the
\* stem, both URLs from its name) and every other file its normal entry.
C7_OneEntryPerFile ==
    op = "list" =>
        LET files == fs[WORKFLOWS_DIR]
        IN  /\ {e.filename : e \in Items} = RegularJsonNames(files)
            /\ Len(resp) = Cardinality(RegularJsonNames(files))
            /\ \A i, j \in 1..Len(resp) :
                    i < j => NameLess(resp[i].filename, resp[j].filename)
            /\ \A e \in Items :
                    IF Unprocessable(files[e.filename])
                    THEN /\ e.error
                         /\ ~e.is_api
                         /\ e.id = <<"stem", Stem(e.filename)>>
                         /\ e.title = <<"stem", Stem(e.filename)>>
                         /\ e.raw_url = Url(e.filename, "raw")
                         /\ e.template_url = Url(e.filename, "api")
                    ELSE /\ ~e.error
                         /\ e.raw_url = Url(e.filename, "raw")

\* three files are listed, the first of them degraded, a later one not
C7_Witness ==
    /\ op = "list"
    /\ Len(resp) = 3
    /\ resp[1].error
    /\ ~resp[3].error
    /\ fs[WORKFLOWS_DIR][resp[2].filename].layout = "invalid"

\* what get_workflow answers for the file of a template_url, format=api
Retrieved(e) == get_workflow(fs, <<e.template_url.name>>, e.template_url.format)

TargetIsApiGraph(e) ==
    LET t == fs[WORKFLOWS_DIR][e.template_url.name]
    IN  /\ t.layout \notin {"invalid", "directory"}
        /\ t.doc.kind = "dict"
        /\ ~HasNodesList(t.doc)
        /\ HasNodeShapedValue(t.doc)

\* C10 as stated: every entry with is_api and no error flag is retrieved,
\* through its template_url, with status 200 and an API graph as its text.
C10_ListedApiIsRetrievable ==
    op = "list" =>
        \A e \in Items :
            (e.is_api /\ ~e.error) =>
                /\ Retrieved(e).status = 200
                /\ TargetIsApiGraph(e)

\* C10 as amended: for every entry with is_api and no error flag the
\* retrieval through template_url answers 200 with the file's text when the
\* target's document is an API graph and 422 when it is not (is_api then
\* comes from the ".api" stem or from the existence of the companion alone);
\* it never answers 404 or 500, and it answers 200 whenever the listed
\* file's own document is an API graph.
C10_ListedApiIs200Or422 ==
    op = "list" =>
        \A e \in Items :
            (e.is_api /\ ~e.error) =>
                LET files == fs[WORKFLOWS_DIR]
                    own == files[e.filename].doc
                IN  /\ Retrieved(e).status = IF TargetIsApiGraph(e) THEN 200 ELSE 422
                    /\ TargetIsApiGraph(e) =>
                            Retrieved(e).body = files[e.template_url.name]
                    /\ (own.kind = "dict" /\ ~HasNodesList(own)
                            /\ HasNodeShapedValue(own))
                        => /\ e.template_url.name = e.filename
                           /\ Retrieved(e).status = 200

\* an entry is is_api through a companion that holds a UI workflow
C10_Witness ==
    /\ op = "list"
    /\ \E e \in Items :
        /\ e.is_api /\ ~e.error
        /\ e.template_url.name # e.filename
        /\ Retrieved(e).status = 422

(***************************************************************************)
(* Claims about the retrieval                                              *)
(***************************************************************************)
\* the file the request names inside WORKFLOWS_DIR, by its last segment
Target(name) == Place(WORKFLOWS_DIR, name)

ServedFile(name) ==
    /\ PathIsFile(fs, Target(name))
    /\ Suffix(name) = "json"

\* C3: format=raw, or no format, on an existing regular .json file answers
\* 200 with the text of the file, whatever the text is.
C3_RawAlwaysSucceeds ==
    (op = "get" /\ req.format \in {NoFormat, "raw"} /\ req.name # <<>>
        /\ ServedFile(PathName(req.name)))
    => /\ resp.status = 200
       /\ resp.body = fs[WORKFLOWS_DIR][PathName(req.name)]

\* C4 as stated: a format that is neither "raw" nor "api" answers 400 for
\* every name and every content.
C4_UnknownFormatIs400 ==
    (op = "get" /\ req.format \notin {NoFormat, "raw", "api"}) => resp.status = 400

\* C4 as amended: with a format whose lower-case form is neither "raw" nor
\* "api", get_workflow answers 404 when the name is no regular .json file of
\* the directory, 500 when the file's text cannot be parsed, and 400 in
\* every other case.
C4_UnknownFormatStatus ==
    (op = "get" /\ req.format # NoFormat /\ Lower(req.format) \notin {"raw", "api"})
    => LET name == PathName(req.name)
       IN  resp.status =
             IF ~(name # <<>> /\ ServedFile(name)) THEN 404
             ELSE IF fs[WORKFLOWS_DIR][name].layout = "invalid" THEN 500
             ELSE 400

\* an unknown format on a file that parses has been answered 400
C4_Witness ==
    /\ op = "get"
    /\ req.format = "xml"
    /\ req.name = <<FooJson>>
    /\ resp.status = 400

HasParentSeg(segs) == \E i \in 1..Len(segs) : segs[i] = ParentSeg

\* the name get_workflow ends up looking for
LookedUp ==
    LET name == PathName(req.name)
    IN  IF op = "alias" /\ ~EndsWithDotJson(name) THEN name \o <<"json">> ELSE name

\* C5 as stated: a name with a parent-directory segment never makes the
\* handlers read or return a file outside WORKFLOWS_DIR, and is answered 404.
C5_ParentSegmentIs404 ==
    (op \in {"get", "alias"} /\ HasParentSeg(req.name))
    => /\ \A r \in reads : r.dir = WORKFLOWS_DIR
       /\ resp.status = 404

\* C5 as amended: a name with a parent-directory segment never makes the
\* handlers read or return a file outside WORKFLOWS_DIR; the answer is 404
\* unless the last segment of the name (".json" appended by the alias when
\* missing) names a regular .json file inside WORKFLOWS_DIR, and then that
\* file is the only one read and is served by the rules of the format.
C5_NoEscape ==
    (op \in {"get", "alias"} /\ HasParentSeg(req.name))
    => /\ \A r \in reads : r.dir = WORKFLOWS_DIR
       /\ resp.body # OutsideText
       /\ resp.status = 404 <=> ~(LookedUp # <<>> /\ ServedFile(LookedUp))
       /\ resp.status # 404 => reads = {Target(LookedUp)}
       /\ resp.status = 200 => resp.body = fs[WORKFLOWS_DIR][LookedUp]

\* "../foo.json" has been requested while foo.json exists on both sides
C5_Witness ==
    /\ op = "get"
    /\ req.name = <<ParentSeg, FooJson>>
    /\ FooJson \in DOMAIN fs[USER_DIR]
    /\ resp.status = 200
(***************************************************************************)
(* Claims about convert_all                                                *)
(***************************************************************************)
Range(q) == {q[i] : i \in 1..Len(q)}

NoDuplicates(q) == \A i, j \in 1..Len(q) : i # j => q[i] # q[j]

Increasing(q) == \A i, j \in 1..Len(q) : i < j => NameLess(q[i], q[j])

\* q without the later occurrences of its elements
Dedup(q) == SelectSeq([i \in 1..Len(q) |-> <<i, q[i]>>],
                      LAMBDA p : \A j \in 1..(p[1] - 1) : q[j] # p[2])

FirstOccurrences(q) == LET d == Dedup(q) IN [i \in 1..Len(d) |-> d[i][2]]

\* the regular files of the source directory that the pattern matches
Matching(files, pattern) ==
    {n \in DOMAIN files : GlobMatch(pattern, n) /\ IsRegular(files[n])}

HoldsApiGraph(text) ==
    /\ text.layout \notin {"invalid", "directory"}
    /\ text.doc.kind = "dict"
    /\ ~HasNodesList(text.doc)
    /\ HasNodeShapedValue(text.doc)

ApiSources ==
    {n \in Matching(req.before[req.source_dir], req.glob) :
        HoldsApiGraph(req.before[req.source_dir][n])}

OtherSources == Matching(req.before[req.source_dir], req.glob) \ ApiSources

\* the destination name: the source name when it ends in ".api.json", else
\* the stem followed by ".api.json"
DerivedTarget(n) ==
    IF EndsWithDotApi(Stem(n)) /\ Suffix(n) = "json" THEN n
    ELSE Stem(n) \o <<"api", "json">>

\* C6 as stated: after convert_all the source directory holds the same files
\* with the same contents as before, for every source_dir, dest_dir,
\* overwrite and glob.
C6_SourceUntouched ==
    op = "convert" => fs[req.source_dir] = req.before[req.source_dir]

\* C6 as amended: with dest_dir another directory than source_dir the files
\* of source_dir and their contents are the same after the call as before.
\* With dest_dir = source_dir no file of source_dir is deleted, and with
\* overwrite=false every file that existed keeps its content; the call then
\* creates the derived *.api.json files there, and with overwrite=true
\* rewrites the existing ones.
C6_SourceKept ==
    op = "convert" =>
        LET before == req.before[req.source_dir]
            after == fs[req.source_dir]
        IN  /\ req.dest_dir # req.source_dir => after = before
            /\ DOMAIN before \subseteq DOMAIN after
            /\ ~req.overwrite => \A n \in DOMAIN before : after[n] = before[n]
            /\ \A n \in DOMAIN after :
                    (n \notin DOMAIN before \/ after[n] # before[n])
                    => /\ req.dest_dir = req.source_dir
                       /\ \E m \in ApiSources : DerivedTarget(m) = n

\* a call with another destination has written a file
C6_Witness ==
    /\ op = "convert"
    /\ req.dest_dir # req.source_dir
    /\ req.overwrite
    /\ resp.converted # <<>>
    /\ fs[req.dest_dir] # req.before[req.dest_dir]

\* C8 as stated: against an empty destination, converted is exactly the
\* derived names of the API-graph sources, none twice, and skipped exactly
\* the other matching regular files, both in the order of the source names.
C8_ExactLists ==
    (op = "convert" /\ req.before[req.dest_dir] = EmptyDir /\ ~resp.raised)
    => /\ Range(resp.converted) = {DerivedTarget(n) : n \in ApiSources}
       /\ NoDuplicates(resp.converted)
       /\ \A i, j \in 1..Len(resp.converted) :
            i < j => \E a, b \in ApiSources :
                        /\ NameLess(a, b)
                        /\ DerivedTarget(a) = resp.converted[i]
                        /\ DerivedTarget(b) = resp.converted[j]
       /\ Range(resp.skipped) = OtherSources
       /\ NoDuplicates(resp.skipped)
       /\ Increasing(resp.skipped)

\* C8 as amended: against an empty destination, skipped is exactly the
\* matching regular source files that hold no API graph, in the order of
\* their names.  converted lists, in the order of the source names, the
\* derived name of every matching regular source file that holds an API
\* graph, where the derived name is the source name when it ends in
\* ".api.json" and "<stem>.api.json" otherwise; with overwrite=true a name
\* derived by two sources is listed twice, with overwrite=false only once.
C8_ListsInSourceOrder ==
    (op = "convert" /\ req.before[req.dest_dir] = EmptyDir /\ ~resp.raised)
    => LET sources == SortNames(ApiSources)
           targets == [i \in 1..Len(sources) |-> DerivedTarget(sources[i])]
       IN  /\ resp.converted =
                IF req.overwrite THEN targets ELSE FirstOccurrences(targets)
           /\ Range(resp.skipped) = OtherSources
           /\ NoDuplicates(resp.skipped)
           /\ Increasing(resp.skipped)

\* foo.api.json and foo.json, both API graphs, have been exported with
\* overwrite=true to an empty directory, next to a file that was skipped
C8_Witness ==
    /\ op = "convert"
    /\ req.before[req.dest_dir] = EmptyDir
    /\ req.overwrite
    /\ resp.converted = <<FooApiJson, FooApiJson>>
    /\ resp.skipped = <<FooApiTxt>>

\* C9 as stated: with overwrite=false, every source file whose derived name
\* exists in dest_dir before the call is in neither list, and the existing
\* destination file keeps its content.
C9_ExistingTargetSkipsEverySource ==
    (op = "convert" /\ ~req.overwrite)
    => \A n \in Matching(req.before[req.source_dir], req.glob) :
            DerivedTarget(n) \in DOMAIN req.before[req.dest_dir]
            => /\ DerivedTarget(n) \notin Range(resp.converted)
               /\ n \notin Range(resp.skipped)
               /\ fs[req.dest_dir][DerivedTarget(n)]
                    = req.before[req.dest_dir][DerivedTarget(n)]

\* C9 as amended: with overwrite=false, every source file that holds an API
\* graph and whose derived name exists in dest_dir before the call is in
\* neither list, and the existing destination file keeps its content; a
\* source file that holds no API graph is listed in skipped all the same.
C9_ExistingTargetSkipsApiSource ==
    (op = "convert" /\ ~req.overwrite)
    => /\ \A n \in ApiSources :
            DerivedTarget(n) \in DOMAIN req.before[req.dest_dir]
            => /\ DerivedTarget(n) \notin Range(resp.converted)
               /\ n \notin Range(resp.skipped)
               /\ fs[req.dest_dir][DerivedTarget(n)]
                    = req.before[req.dest_dir][DerivedTarget(n)]
       /\ ~resp.raised => OtherSources \subseteq Range(resp.skipped)
       /\ \A n \in DOMAIN req.before[req.dest_dir] :
            fs[req.dest_dir][n] = req.before[req.dest_dir][n]

\* foo.json holds an API graph and foo.api.json was in the destination
C9_Witness ==
    /\ op = "convert"
    /\ ~req.overwrite
    /\ req.dest_dir = DST_DIR
    /\ req.source_dir = SRC_DIR
    /\ FooJson \in ApiSources
    /\ FooApiJson \in DOMAIN req.before[DST_DIR]
    /\ IsRegular(req.before[DST_DIR][FooApiJson])
    /\ resp.converted = <<>>
====
